---- MODULE Spec2Model ----
(***************************************************************************)
(* The drti decoration pass (passes/drti-decorate.cpp) as a state machine. *)
(* One run of drti::Decorate::runOnModule over an in-memory IR module:     *)
(* target check, target configuration, target discovery, support linking,  *)
(* helper lookup, snapshot embedding, per-function decoration, re-tagging. *)
(*                                                                         *)
(* An IR module is a record                                                *)
(*   [triple, types, globals, functions]                                   *)
(* whose globals and functions are sequences in module iteration order.    *)
(* A function is [name, decl, intrinsic, fty, attrs, blocks], a block is   *)
(* [label, insts] and an instruction is the record built by Inst below.    *)
(* The field num of an instruction is its identity (the llvm::Instruction  *)
(* pointer of the source): instructions of the input carry 1, 2, ... in    *)
(* their function, instructions inserted by the pass carry 0.              *)
(* A value (an operand, a callee, a reference to a global) is the record   *)
(* Val(sym, owner, uniq): the symbol, the function whose name is part of   *)
(* the symbol, and the suffix LLVM gives to the uniq-th reuse of a name.   *)
(***************************************************************************)
EXTENDS Integers, Sequences, FiniteSets, TLC

\* Longest sequence of call instructions enumerated for the body of f.
MaxCalls == 2

SupportedTriple == "x86_64-unknown-linux-gnu"
\* The triple the pass sets is the triple it accepts.
DrtiTripleUnsuffixed == "x86_64-unknown-linux-gnu"

DrtiTriple == "x86_64_drti-unknown-linux-gnu"
OtherTriple == "aarch64-unknown-linux-gnu"

\* ------------------------------------------------------------- sequences

RECURSIVE SeqsUpTo(_, _)
SeqsUpTo(S, n) ==
    IF n = 0 THEN {<<>>}
    ELSE LET shorter == SeqsUpTo(S, n - 1)
         IN  shorter \cup {Append(s, x) : s \in {t \in shorter : Len(t) = n - 1}, x \in S}

RECURSIVE Concat(_)
Concat(ss) == IF ss = <<>> THEN <<>> ELSE Head(ss) \o Concat(Tail(ss))

Range(s) == {s[i] : i \in 1..Len(s)}

\* ------------------------------------------------------------ IR values

Val(sym, owner, uniq) == [sym |-> sym, owner |-> owner, uniq |-> uniq]

Local(sym) == Val(sym, "", 0)

NoVal == Val("", "", 0)

Inst(op, res, callee, direct, asm, fty, ops, tail, num) ==
    [op |-> op, res |-> res, callee |-> callee, direct |-> direct, asm |-> asm,
     fty |-> fty, ops |-> ops, tail |-> tail, num |-> num]

\* An instruction that is no call.
Plain(op, res, ops) == Inst(op, res, NoVal, FALSE, FALSE, "", ops, "none", 0)

\* A call the pass inserts: direct, of a named function.
NewCall(res, fname, ops) == Inst("call", res, Local(fname), TRUE, FALSE, "", ops, "none", 0)

Block(label, insts) == [label |-> label, insts |-> insts]

Function(name, decl, intrinsic, fty, attrs, blocks) ==
    [name |-> name, decl |-> decl, intrinsic |-> intrinsic, fty |-> fty,
     attrs |-> attrs, blocks |-> blocks]

Declaration(name, fty) == Function(name, TRUE, FALSE, fty, {}, <<>>)

Intrinsic(name, fty) == Function(name, TRUE, TRUE, fty, {}, <<>>)

\* A global variable. kind "var" is a variable of the input or of the support
\* module; the other kinds are the records the pass creates. refs are the
\* globals its initializer points to, data the bytes or entries it holds.
Global(name, owner, uniq, kind, listed, constant, counter, refs, ordinal, data, size, count) ==
    [name |-> name, owner |-> owner, uniq |-> uniq, kind |-> kind, listed |-> listed,
     constant |-> constant, counter |-> counter, refs |-> refs, ordinal |-> ordinal,
     data |-> data, size |-> size, count |-> count]

Variable(name, listed) ==
    Global(name, "", 0, "var", listed, FALSE, 0, <<>>, 0, <<>>, 0, 0)

RefTo(g) == Val(g.name, g.owner, g.uniq)

IsCall(i) == i.op = "call"

\* All instructions of a function, blocks in function order, instructions in
\* block order.
InstsOf(fn) == Concat([b \in 1..Len(fn.blocks) |-> fn.blocks[b].insts])

HasFunction(m, name) == \E k \in 1..Len(m.functions) : m.functions[k].name = name

GetFunction(m, name) ==
    m.functions[CHOOSE k \in 1..Len(m.functions) : m.functions[k].name = name]

\* Module::getOrInsertFunction: the function of that name, appended as a
\* declaration when the module has none.
GetOrInsertFunction(m, name, intrinsic, fty) ==
    IF HasFunction(m, name) THEN m
    ELSE [m EXCEPT !.functions = Append(@, Function(name, TRUE, intrinsic, fty, {}, <<>>))]

\* new llvm::GlobalVariable(module, ..., name, InsertBefore): the variable is
\* put before the global insertBefore, or at the end when that is NoVal; a
\* name already taken gets the next free suffix.
FreeSuffix(m, name, owner) ==
    Cardinality({k \in 1..Len(m.globals) :
                    m.globals[k].name = name /\ m.globals[k].owner = owner})

InsertGlobal(m, g, insertBefore) ==
    IF insertBefore = NoVal
    THEN [m EXCEPT !.globals = Append(@, g)]
    ELSE LET at == CHOOSE k \in 1..Len(m.globals) : RefTo(m.globals[k]) = insertBefore
         IN  [m EXCEPT !.globals = SubSeq(@, 1, at - 1) \o <<g>> \o SubSeq(@, at, Len(@))]

\* --------------------------------------------------------------- inputs

\* The call instructions a body of the input is made of: a direct call of g,
\* a direct call of the external h, a call through a pointer of type T1 or of
\* type T2, and an inline-assembly call of the function type T1.
CallKinds == {"g", "h", "p1", "p2", "asm"}

CallOf(kind, num) ==
    CASE kind = "g"   -> Inst("call", NoVal, Local("g"), TRUE, FALSE, "T1", <<Local("x")>>, "tail", num)
      [] kind = "h"   -> Inst("call", NoVal, Local("h"), TRUE, FALSE, "T2", <<Local("x")>>, "none", num)
      [] kind = "p1"  -> Inst("call", NoVal, Local("fp1"), FALSE, FALSE, "T1", <<Local("x")>>, "tail", num)
      [] kind = "p2"  -> Inst("call", NoVal, Local("fp2"), FALSE, FALSE, "T2", <<Local("x")>>, "none", num)
      [] kind = "asm" -> Inst("call", NoVal, Local("asm"), FALSE, TRUE, "T1", <<>>, "none", num)

\* The body built from a sequence of call kinds: the entry block holds an
\* alloca and the first call, a second block holds the remaining calls.
BodyOf(kinds) ==
    LET n       == Len(kinds)
        alloc   == Inst("alloca", Local("slot"), NoVal, FALSE, FALSE, "", <<>>, "none", 1)
        call(k) == CallOf(kinds[k], k + 1)
        ret     == Inst("ret", NoVal, NoVal, FALSE, FALSE, "", <<>>, "none", n + 2)
        jump    == Inst("br", NoVal, NoVal, FALSE, FALSE, "", <<Local("body")>>, "none", n + 3)
    IN  IF n <= 1
        THEN << Block("entry", <<alloc>> \o [k \in 1..n |-> call(k)] \o <<ret>>) >>
        ELSE << Block("entry", <<alloc, call(1), jump>>),
                Block("body", [k \in 1..(n - 1) |-> call(k + 1)] \o <<ret>>) >>

Unoptimized == {"optnone", "noinline"}

Definition(name, fty, kinds) == Function(name, FALSE, FALSE, fty, Unoptimized, BodyOf(kinds))

FChoices ==
    {Declaration("f", "T1")} \cup {Definition("f", "T1", ks) : ks \in SeqsUpTo(CallKinds, MaxCalls)}

GChoices ==
    {Declaration("g", "T1"), Definition("g", "T1", <<>>), Definition("g", "T1", <<"asm", "p1">>)}

\* A module of the input: f, an intrinsic declaration, g, the external h, and
\* with clash a definition of a symbol that the support module defines too.
InputModule(triple, f, g, clash) ==
    [triple    |-> triple,
     types     |-> {"struct.user"},
     globals   |-> <<Variable("counter", TRUE), Variable("scratch", FALSE)>>,
     functions |-> <<f, Intrinsic("llvm.memcpy", "T3"), g, Declaration("h", "T2")>>
                   \o (IF clash THEN <<Definition("_drti_call_from", "T6", <<>>)>> ELSE <<>>)]

InputModules ==
    {InputModule(t, f, g, c) : t \in {SupportedTriple, OtherTriple},
                               f \in FChoices, g \in GChoices, c \in BOOLEAN}

\* The environment: DRTI_TARGET_NAMES (unset, or its words) and
\* DRTI_TARGETS_FILE (unset, or a path whose file opens or not, and its words).
NamesChoices ==
    {[present |-> FALSE, words |-> <<>>], [present |-> TRUE, words |-> <<>>],
     [present |-> TRUE, words |-> <<"f">>], [present |-> TRUE, words |-> <<"g", "f", "g">>]}

FileChoices ==
    {[present |-> FALSE, readable |-> FALSE, words |-> <<>>],
     [present |-> TRUE, readable |-> FALSE, words |-> <<"f">>],
     [present |-> TRUE, readable |-> TRUE, words |-> <<"h">>],
     [present |-> TRUE, readable |-> TRUE, words |-> <<"k">>]}

Environments == {[names |-> n, file |-> f] : n \in NamesChoices, f \in FileChoices}

\* The support bitcode linked into the pass (_binary_drti_inline_bc_start):
\* the four structure types and the two hand-off routines, and the variants
\* of it that lack a type or a routine, or that do not parse.
SupportTypes ==
    {"struct.drti::landing_site", "struct.drti::static_callsite",
     "struct.drti::treenode", "struct.drti::reflect"}

SupportModule(types, routines) ==
    [triple    |-> SupportedTriple,
     types     |-> types,
     globals   |-> <<Variable("_drti_debug", TRUE)>>,
     functions |-> SelectSeq(<<Definition("_drti_landed", "T4", <<>>),
                            Definition("_drti_call_from", "T6", <<"p1">>),
                            Declaration("_drti_new_tree", "T7")>>,
                          LAMBDA fn : fn.name \in routines \cup {"_drti_new_tree"})]

Routines == {"_drti_landed", "_drti_call_from"}

Blobs ==
    {[parses |-> FALSE, module |-> SupportModule({}, {})],
     [parses |-> TRUE, module |-> SupportModule(SupportTypes, Routines)],
     [parses |-> TRUE, module |-> SupportModule(SupportTypes \ {"struct.drti::treenode"}, Routines)],
     [parses |-> TRUE, module |-> SupportModule(SupportTypes, {"_drti_landed"})]}

\* -------------------------------------------------- target configuration

\* split_stream: every whitespace-separated word of the stream joins the set.
split_stream(words, symbols) == symbols \cup Range(words)

\* The words of the targets file are taken without regard to whether the
\* file opened.
targets_from_environment_unopened(e) ==
    LET fromNames == IF e.names.present THEN split_stream(e.names.words, {}) ELSE {}
    IN  IF e.file.present THEN split_stream(e.file.words, fromNames) ELSE fromNames

\* targets_from_environment, up to its test for an empty result: the words of
\* DRTI_TARGET_NAMES when set, then the words of the file DRTI_TARGETS_FILE
\* names when set (a file that does not open yields no word).
targets_from_environment(e) ==
    LET fromNames == IF e.names.present THEN split_stream(e.names.words, {}) ELSE {}
        stream    == IF e.file.readable THEN e.file.words ELSE <<>>
    IN  IF e.file.present THEN split_stream(stream, fromNames) ELSE fromNames

\* ---------------------------------------------------- target discovery

\* The test of the name lookup is inverted: the functions whose name is no
\* target name.
TargetFunctionsInverted(m, names) ==
    {m.functions[k].name : k \in {j \in 1..Len(m.functions) : m.functions[j].name \notin names}}

\* find_target_functions: the functions of the module, declared or defined,
\* whose name is a target name, and their function types.
TargetFunctions(m, names) ==
    {m.functions[k].name : k \in {j \in 1..Len(m.functions) : m.functions[j].name \in names}}

TargetFunctionTypes(m, names) ==
    {m.functions[k].fty : k \in {j \in 1..Len(m.functions) : m.functions[j].name \in names}}

\* ------------------------------------------------------- support linking

\* The functions of src up to the first one dst defines too (all of them when
\* there is none): what llvm::Linker can move before it reports a conflict.
Defines(m, name) == HasFunction(m, name) /\ ~GetFunction(m, name).decl

LinkConflicts(dst, src) ==
    {k \in 1..Len(src.functions) :
        ~src.functions[k].decl /\ Defines(dst, src.functions[k].name)}

\* dst with the types, the variables and the first n functions of src linked
\* in: a definition of src replaces the declaration dst has of it and goes
\* to the end of the function list, a declaration of src is added when dst
\* has no function of that name.
LinkPrefix(dst, src, n) ==
    LET moved    == SubSeq(src.functions, 1, n)
        replaced == {moved[k].name : k \in {j \in 1..n : ~moved[j].decl}}
        kept     == SelectSeq(dst.functions, LAMBDA fn : ~(fn.decl /\ fn.name \in replaced))
        added    == SelectSeq(moved, LAMBDA fn : ~fn.decl \/ ~HasFunction(dst, fn.name))
    IN  [dst EXCEPT !.types = @ \cup src.types,
                    !.globals = @ \o src.globals,
                    !.functions = kept \o added]

\* Linker::linkInModule on success.
LinkInModule(dst, src) == LinkPrefix(dst, src, Len(src.functions))

\* The states linkInModule can leave dst in when it reports a conflict.
LinkFailures(dst, src) ==
    LET first == CHOOSE k \in LinkConflicts(dst, src) :
                     \A j \in LinkConflicts(dst, src) : k <= j
    IN  {dst} \cup {LinkPrefix(dst, src, n) : n \in 1..(first - 1)}

\* --------------------------------------------------------- helper lookup

\* InlineHelpers::InlineHelpers: the four types and the two routines, each ""
\* (a null pointer) when the module does not have it.
TypeByName(m, name) == IF name \in m.types THEN name ELSE ""

FunctionByName(m, name) == IF HasFunction(m, name) THEN name ELSE ""

InlineHelpers(m) ==
    [m_drti_landing_site_type |-> TypeByName(m, "struct.drti::landing_site"),
     m_drti_callsite_type     |-> TypeByName(m, "struct.drti::static_callsite"),
     m_drti_treenode_type     |-> TypeByName(m, "struct.drti::treenode"),
     m_drti_reflect_type      |-> TypeByName(m, "struct.drti::reflect"),
     m_drti_landed            |-> FunctionByName(m, "_drti_landed"),
     m_drti_call_from         |-> FunctionByName(m, "_drti_call_from")]

NoHelpers ==
    [m_drti_landing_site_type |-> "", m_drti_callsite_type |-> "",
     m_drti_treenode_type |-> "", m_drti_reflect_type |-> "",
     m_drti_landed |-> "", m_drti_call_from |-> ""]

\* The two routines are not looked at.
ok_types_only(h) ==
    ~(h.m_drti_landing_site_type = "" \/ h.m_drti_callsite_type = ""
      \/ h.m_drti_treenode_type = "" \/ h.m_drti_reflect_type = "")

\* InlineHelpers::ok
ok(h) ==
    IF h.m_drti_landing_site_type = "" \/ h.m_drti_callsite_type = ""
       \/ h.m_drti_treenode_type = "" \/ h.m_drti_reflect_type = ""
    THEN FALSE
    ELSE IF h.m_drti_landed = "" \/ h.m_drti_call_from = ""
    THEN FALSE
    ELSE TRUE

\* ------------------------------------------------------ symbol collection

\* visit_listed_globals (drti-common.hpp): calls the visitor for each listed
\* global variable of the module, in module order.
visit_listed_globals(m) == SelectSeq(m.globals, LAMBDA g : g.kind = "var" /\ g.listed)

\* Intrinsic declarations are noted like the others.
NotedFunctionOrIntrinsic(fn) == fn.decl

\* The loop of collect_globals over the functions: an intrinsic is ignored, a
\* declaration is noted, a definition loses OptimizeNone and NoInline.
NotedFunction(fn) == ~fn.intrinsic /\ fn.decl

StrippedFunction(fn) ==
    IF fn.intrinsic \/ fn.decl THEN fn
    ELSE [fn EXCEPT !.attrs = @ \ {"optnone", "noinline"}]

\* collect_globals: the symbols noted, listed variables first and function
\* declarations after them, and the module it leaves.
collect_globals(m) ==
    LET variables == visit_listed_globals(m)
        functions == SelectSeq(m.functions, NotedFunction)
    IN  [result |-> [k \in 1..Len(variables) |-> RefTo(variables[k])]
                    \o [k \in 1..Len(functions) |-> Local(functions[k].name)],
         module |-> [m EXCEPT !.functions =
                        [k \in 1..Len(m.functions) |-> StrippedFunction(m.functions[k])]]]

\* ----------------------------------------------------------- the snapshot

\* The bitcode stream as a sequence of records <<tag, payload, count>>: the
\* triple, the types, one record per global variable, and per function a
\* header with its number of blocks, per block its label with its number of
\* instructions, per instruction the instruction.
WriteBlock(b) ==
    <<<<"BLOCK", b.label, Len(b.insts)>>>> \o [k \in 1..Len(b.insts) |-> <<"INST", b.insts[k], 0>>]

WriteFunction(fn) ==
    <<<<"FUNCTION",
        [name |-> fn.name, decl |-> fn.decl, intrinsic |-> fn.intrinsic,
         fty |-> fn.fty, attrs |-> fn.attrs],
        Len(fn.blocks)>>>>
    \o Concat([k \in 1..Len(fn.blocks) |-> WriteBlock(fn.blocks[k])])

\* raw_bitcode: BitcodeWriter::writeModule of the module as it stands.
raw_bitcode(m) ==
    <<<<"TRIPLE", m.triple, 0>>, <<"TYPES", m.types, Cardinality(m.types)>>>>
    \o [k \in 1..Len(m.globals) |-> <<"GLOBAL", m.globals[k], 0>>]
    \o Concat([k \in 1..Len(m.functions) |-> WriteFunction(m.functions[k])])

\* The reader of the stream (llvm::parseBitcodeFile, which the runtime runs
\* on the embedded bytes).
RECURSIVE ReadBlocks(_, _, _)
ReadBlocks(bytes, at, n) ==
    IF n = 0 THEN <<>>
    ELSE LET count == bytes[at][3]
         IN  <<Block(bytes[at][2], [k \in 1..count |-> bytes[at + k][2]])>>
             \o ReadBlocks(bytes, at + 1 + count, n - 1)

RECURSIVE ReadFunctions(_, _)
ReadFunctions(bytes, at) ==
    IF at > Len(bytes) THEN <<>>
    ELSE LET header == bytes[at][2]
             blocks == ReadBlocks(bytes, at + 1, bytes[at][3])
             fn     == Function(header.name, header.decl, header.intrinsic, header.fty,
                                header.attrs, blocks)
         IN  <<fn>> \o ReadFunctions(bytes, at + 1 + Len(blocks) + Len(InstsOf(fn)))

Deserialize(bytes) ==
    LET globals == SelectSeq(bytes, LAMBDA r : r[1] = "GLOBAL")
    IN  [triple    |-> bytes[1][2],
         types     |-> bytes[2][2],
         globals   |-> [k \in 1..Len(globals) |-> globals[k][2]],
         functions |-> ReadFunctions(bytes, 3 + Len(globals))]

\* The module is serialized before the symbols are collected, so before the
\* markers are stripped.
create_self_serialize_first(m) ==
    LET buffer    == raw_bitcode(m)
        collected == collect_globals(m)
        bitcode   == Global("__drti_bitcode", "", FreeSuffix(collected.module, "__drti_bitcode", ""),
                            "bitcode", FALSE, TRUE, 0, <<>>, 0, buffer, 0, 0)
        m1        == InsertGlobal(collected.module, bitcode, NoVal)
        table     == Global("__drti_globals", "", FreeSuffix(m1, "__drti_globals", ""),
                            "table", FALSE, TRUE, 0, <<>>, 0, collected.result, 0, 0)
        m2        == InsertGlobal(m1, table, NoVal)
        reflect   == Global("__drti_self", "", FreeSuffix(m2, "__drti_self", ""),
                            "reflect", FALSE, TRUE, 0, <<RefTo(bitcode), RefTo(table)>>, 0, <<>>,
                            Len(buffer), Len(collected.result))
    IN  [module |-> InsertGlobal(m2, reflect, NoVal), m_reflect_global |-> RefTo(reflect)]

\* create_self: collect the symbols, serialize the module, and add the three
\* constants __drti_bitcode, __drti_globals and __drti_self at the end of the
\* globals. The result is the module and the reference m_reflect_global.
create_self(m) ==
    LET collected == collect_globals(m)
        buffer    == raw_bitcode(collected.module)
        bitcode   == Global("__drti_bitcode", "", FreeSuffix(collected.module, "__drti_bitcode", ""),
                            "bitcode", FALSE, TRUE, 0, <<>>, 0, buffer, 0, 0)
        m1        == InsertGlobal(collected.module, bitcode, NoVal)
        table     == Global("__drti_globals", "", FreeSuffix(m1, "__drti_globals", ""),
                            "table", FALSE, TRUE, 0, <<>>, 0, collected.result, 0, 0)
        m2        == InsertGlobal(m1, table, NoVal)
        reflect   == Global("__drti_self", "", FreeSuffix(m2, "__drti_self", ""),
                            "reflect", FALSE, TRUE, 0, <<RefTo(bitcode), RefTo(table)>>, 0, <<>>,
                            Len(buffer), Len(collected.result))
    IN  [module |-> InsertGlobal(m2, reflect, NoVal), m_reflect_global |-> RefTo(reflect)]

\* ------------------------------------------------------- call collection

\* The calls collect_calls numbers: call instructions that are not inline
\* assembly.
Numbered(i) == IsCall(i) /\ ~i.asm

\* Only direct calls of target functions are collected.
CollectedDirectOnly(i, types, targets) ==
    /\ i.fty \in types
    /\ i.direct /\ i.callee.sym \in targets

\* The calls collect_calls collects: the callee's function type is a target
\* type, and the callee is not a function outside the target functions.
Collected(i, types, targets) ==
    /\ i.fty \in types
    /\ ~(i.direct /\ i.callee.sym \notin targets)

RECURSIVE CollectFrom(_, _, _, _)
CollectFrom(insts, call_number, types, targets) ==
    IF insts = <<>> THEN <<>>
    ELSE LET i == Head(insts)
         IN  IF Numbered(i)
             THEN (IF Collected(i, types, targets)
                   THEN <<[call_number |-> call_number, callInst |-> i.num]>>
                   ELSE <<>>)
                  \o CollectFrom(Tail(insts), call_number + 1, types, targets)
             ELSE CollectFrom(Tail(insts), call_number, types, targets)

\* collect_calls: the pairs (call_number, call) of the calls to decorate.
collect_calls(fn, types, targets) == CollectFrom(InstsOf(fn), 0, types, targets)

\* ------------------------------------------------------ landing records

\* create_landing_global: the two name strings and the landing-site record
\* _drti_landing_<function>, each put before the one created before it.
create_landing_global(m, fname, reflect) ==
    LET name_global == Global("__drti_landing_site_name", "",
                              FreeSuffix(m, "__drti_landing_site_name", ""),
                              "string", FALSE, TRUE, 0, <<>>, 0,
                              <<Local("_drti_landing_"), Local(fname)>>, 0, 0)
        m1          == InsertGlobal(m, name_global, NoVal)
        function_name_global ==
                       Global("__drti_landing_site_function_name", "",
                              FreeSuffix(m1, "__drti_landing_site_function_name", ""),
                              "string", FALSE, TRUE, 0, <<>>, 0, <<Local(fname)>>, 0, 0)
        m2          == InsertGlobal(m1, function_name_global, RefTo(name_global))
        variable    == Global("_drti_landing_", fname, FreeSuffix(m2, "_drti_landing_", fname),
                              "landing", FALSE, FALSE, 0,
                              <<RefTo(name_global), RefTo(function_name_global), reflect>>,
                              0, <<>>, 0, 0)
    IN  [module |-> InsertGlobal(m2, variable, RefTo(function_name_global)),
         variable |-> RefTo(variable)]

\* The call number is stored in the first member, the counter, and the
\* third member is zero.
create_callsite_global_members_swapped(m, fname, landing_global, call_number) ==
    LET variable == Global("_drti_callsite_", fname, FreeSuffix(m, "_drti_callsite_", fname),
                           "callsite", FALSE, FALSE, call_number, <<landing_global>>, 0,
                           <<>>, 0, 0)
    IN  [module |-> InsertGlobal(m, variable, NoVal), variable |-> RefTo(variable)]

\* create_callsite_global: the call-site record _drti_callsite_<function>.
create_callsite_global(m, fname, landing_global, call_number) ==
    LET variable == Global("_drti_callsite_", fname, FreeSuffix(m, "_drti_callsite_", fname),
                           "callsite", FALSE, FALSE, 0, <<landing_global>>, call_number,
                           <<>>, 0, 0)
    IN  [module |-> InsertGlobal(m, variable, NoVal), variable |-> RefTo(variable)]

\* -------------------------------------------------------- landing update

ReplaceFunction(m, fn) ==
    [m EXCEPT !.functions = [k \in 1..Len(@) |-> IF @[k].name = fn.name THEN fn ELSE @[k]]]

\* The first instruction of the entry block that is no alloca.
SplitPoint(entry) ==
    CHOOSE k \in 1..Len(entry.insts) :
        /\ entry.insts[k].op # "alloca"
        /\ \A j \in 1..(k - 1) : entry.insts[j].op = "alloca"

\* The branch at the end of entry goes to the probe when the return address
\* is not aligned.
add_landing_update_probe_first(m, fname, landing_global) ==
    LET fn     == GetFunction(m, fname)
        entry  == fn.blocks[1]
        at     == SplitPoint(entry)
        m1     == GetOrInsertFunction(m, "llvm.returnaddress", TRUE, "T8")
        m2     == GetOrInsertFunction(m1, "_drti_caller", FALSE, "T9")
        caller == Local("drtiCallerTreenode")
        entry1 == Block("entry",
                    SubSeq(entry.insts, 1, at - 1) \o
                    << NewCall(Local("drtiRetAddress"), "llvm.returnaddress", <<Local("zero32")>>),
                       Plain("ptrtoint", Local("drtiRetAddressCast"), <<Local("drtiRetAddress")>>),
                       Plain("and", Local("drtiAndRetalign"),
                             <<Local("drtiRetAddressCast"), Local("DRTI_RETALIGN - 1")>>),
                       Plain("icmp eq", Local("drtiRetIsAligned"),
                             <<Local("drtiAndRetalign"), Local("zero64")>>),
                       Plain("condbr", NoVal,
                             <<Local("drtiRetIsAligned"), Local("drti_land1"), Local("drti_land2")>>) >>)
        land1  == Block("drti_land1",
                    << Plain("phi", caller,
                             <<Local("null"), Local("entry"), Local("null"), Local("drti_land2"),
                               Local("drtiTreenode"), Local("drti_land3")>>) >>
                    \o SubSeq(entry.insts, at, Len(entry.insts)))
        land2  == Block("drti_land2",
                    << Plain("inttoptr", Val("drtiRetAddressCast", "", 1),
                             <<Local("drtiRetAddressCast")>>),
                       Plain("gep", Local("drtiGep"),
                             <<Val("drtiRetAddressCast", "", 1), Local("-DRTI_RETALIGN / 8")>>),
                       Plain("load", Local("drtiMaybeMagic"), <<Local("drtiGep")>>),
                       Plain("icmp eq", Local("drtiMatches"),
                             <<Local("drtiMaybeMagic"), Local("DRTI_MAGIC")>>),
                       Plain("condbr", NoVal,
                             <<Local("drtiMatches"), Local("drti_land3"), Local("drti_land1")>>) >>)
        land3  == Block("drti_land3",
                    << NewCall(Local("drtiTreenode"), "_drti_caller", <<>>),
                       NewCall(NoVal, "_drti_landed", <<landing_global, Local("drtiTreenode")>>),
                       Plain("br", NoVal, <<Local("drti_land1")>>) >>)
        blocks == <<entry1, land1>> \o Tail(fn.blocks) \o <<land2, land3>>
    IN  [module |-> ReplaceFunction(m2, [fn EXCEPT !.blocks = blocks]), caller |-> caller]

\* add_landing_update: the entry block is split after its allocas, the
\* return-address test goes to the end of entry, drti_land1 starts with the
\* phi and continues with the rest of the old entry block, drti_land2 and
\* drti_land3 go to the end of the function. The result is the module and the
\* phi, the caller value of the function.
add_landing_update(m, fname, landing_global) ==
    LET fn     == GetFunction(m, fname)
        entry  == fn.blocks[1]
        at     == SplitPoint(entry)
        m1     == GetOrInsertFunction(m, "llvm.returnaddress", TRUE, "T8")
        m2     == GetOrInsertFunction(m1, "_drti_caller", FALSE, "T9")
        caller == Local("drtiCallerTreenode")
        entry1 == Block("entry",
                    SubSeq(entry.insts, 1, at - 1) \o
                    << NewCall(Local("drtiRetAddress"), "llvm.returnaddress", <<Local("zero32")>>),
                       Plain("ptrtoint", Local("drtiRetAddressCast"), <<Local("drtiRetAddress")>>),
                       Plain("and", Local("drtiAndRetalign"),
                             <<Local("drtiRetAddressCast"), Local("DRTI_RETALIGN - 1")>>),
                       Plain("icmp eq", Local("drtiRetIsAligned"),
                             <<Local("drtiAndRetalign"), Local("zero64")>>),
                       Plain("condbr", NoVal,
                             <<Local("drtiRetIsAligned"), Local("drti_land2"), Local("drti_land1")>>) >>)
        land1  == Block("drti_land1",
                    << Plain("phi", caller,
                             <<Local("null"), Local("entry"), Local("null"), Local("drti_land2"),
                               Local("drtiTreenode"), Local("drti_land3")>>) >>
                    \o SubSeq(entry.insts, at, Len(entry.insts)))
        land2  == Block("drti_land2",
                    << Plain("inttoptr", Val("drtiRetAddressCast", "", 1),
                             <<Local("drtiRetAddressCast")>>),
                       Plain("gep", Local("drtiGep"),
                             <<Val("drtiRetAddressCast", "", 1), Local("-DRTI_RETALIGN / 8")>>),
                       Plain("load", Local("drtiMaybeMagic"), <<Local("drtiGep")>>),
                       Plain("icmp eq", Local("drtiMatches"),
                             <<Local("drtiMaybeMagic"), Local("DRTI_MAGIC")>>),
                       Plain("condbr", NoVal,
                             <<Local("drtiMatches"), Local("drti_land3"), Local("drti_land1")>>) >>)
        land3  == Block("drti_land3",
                    << NewCall(Local("drtiTreenode"), "_drti_caller", <<>>),
                       NewCall(NoVal, "_drti_landed", <<landing_global, Local("drtiTreenode")>>),
                       Plain("br", NoVal, <<Local("drti_land1")>>) >>)
        blocks == <<entry1, land1>> \o Tail(fn.blocks) \o <<land2, land3>>
    IN  [module |-> ReplaceFunction(m2, [fn EXCEPT !.blocks = blocks]), caller |-> caller]

\* -------------------------------------------------------- call decoration

\* The index of the resolved_target member of a tree node.
ResolvedTargetField == 5

\* The suffix a new value named sym gets in the function.
FreeValueSuffix(fn, sym) ==
    Cardinality({k \in 1..Len(InstsOf(fn)) : InstsOf(fn)[k].res.sym = sym})

\* The call keeps the tail-call kind it had.
DecoratedBlockTailKept(b, fn, caller, callInst, callsite) ==
    LET at        == CHOOSE k \in 1..Len(b.insts) : b.insts[k].num = callInst
        call      == b.insts[at]
        n         == FreeValueSuffix(fn, "treenode")
        oldTarget == Val("castOldTarget", "", n)
        treenode  == Val("treenode", "", n)
        resolved  == Val("resolved_target", "", n)
        loaded    == Val("load", "", n)
        newTarget == Val("castResolvedTarget", "", n)
    IN  [b EXCEPT !.insts =
            SubSeq(@, 1, at - 1) \o
            << Plain("bitcast", oldTarget, <<call.callee>>),
               NewCall(treenode, "_drti_call_from", <<callsite, caller, oldTarget>>),
               Plain("structgep", resolved, <<treenode, Val("field", "", ResolvedTargetField)>>),
               Plain("load", loaded, <<resolved>>),
               Plain("bitcast", newTarget, <<loaded>>),
               NewCall(NoVal, "_drti_set_caller", <<treenode>>),
               [call EXCEPT !.callee = newTarget, !.direct = FALSE] >>
            \o SubSeq(@, at + 1, Len(@))]

\* decorate_call: before the call callInst of the function, the cast of the
\* old target, the call of _drti_call_from, the load of the node's resolved
\* target, its cast and the call of _drti_set_caller; the call itself gets
\* the cast resolved target as its callee and may no longer be a tail call.
DecoratedBlock(b, fn, caller, callInst, callsite) ==
    LET at        == CHOOSE k \in 1..Len(b.insts) : b.insts[k].num = callInst
        call      == b.insts[at]
        n         == FreeValueSuffix(fn, "treenode")
        oldTarget == Val("castOldTarget", "", n)
        treenode  == Val("treenode", "", n)
        resolved  == Val("resolved_target", "", n)
        loaded    == Val("load", "", n)
        newTarget == Val("castResolvedTarget", "", n)
    IN  [b EXCEPT !.insts =
            SubSeq(@, 1, at - 1) \o
            << Plain("bitcast", oldTarget, <<call.callee>>),
               NewCall(treenode, "_drti_call_from", <<callsite, caller, oldTarget>>),
               Plain("structgep", resolved, <<treenode, Val("field", "", ResolvedTargetField)>>),
               Plain("load", loaded, <<resolved>>),
               Plain("bitcast", newTarget, <<loaded>>),
               NewCall(NoVal, "_drti_set_caller", <<treenode>>),
               [call EXCEPT !.callee = newTarget, !.direct = FALSE, !.tail = "notail"] >>
            \o SubSeq(@, at + 1, Len(@))]

decorate_call(m, fname, caller, callInst, callsite) ==
    LET fn     == GetFunction(m, fname)
        blocks == [k \in 1..Len(fn.blocks) |->
                      IF \E j \in 1..Len(fn.blocks[k].insts) : fn.blocks[k].insts[j].num = callInst
                      THEN DecoratedBlock(fn.blocks[k], fn, caller, callInst, callsite)
                      ELSE fn.blocks[k]]
        m1     == GetOrInsertFunction(m, "_drti_set_caller", FALSE, "T10")
    IN  ReplaceFunction(m1, [fn EXCEPT !.blocks = blocks])

\* decorate_calls: for each collected call in turn, its call-site record and
\* its decoration.
RECURSIVE decorate_calls(_, _, _, _, _)
decorate_calls(m, fname, collected, caller, landing_global) ==
    IF collected = <<>> THEN m
    ELSE LET site == create_callsite_global(m, fname, landing_global,
                                            Head(collected).call_number)
             m1   == decorate_call(site.module, fname, caller, Head(collected).callInst,
                                   site.variable)
         IN  decorate_calls(m1, fname, Tail(collected), caller, landing_global)

\* The calls are collected after the entry of the function was rewritten.
DecorateFunctionCollectLate(m, fname, types, targets, reflect) ==
    LET landing == create_landing_global(m, fname, reflect)
        update  == add_landing_update(landing.module, fname, landing.variable)
        calls   == collect_calls(GetFunction(update.module, fname), types, targets)
    IN  decorate_calls(update.module, fname, calls, update.caller, landing.variable)

\* A function none of whose calls is collected is left alone.
DecorateFunctionWithCallsOnly(m, fname, types, targets, reflect) ==
    LET calls   == collect_calls(GetFunction(m, fname), types, targets)
        landing == create_landing_global(m, fname, reflect)
        update  == add_landing_update(landing.module, fname, landing.variable)
    IN  IF calls = <<>> THEN m
        ELSE decorate_calls(update.module, fname, calls, update.caller, landing.variable)

\* The call numbers are not started afresh for each function: they go on
\* from the number of call-site records the module holds already.
DecorateFunctionRunningNumber(m, fname, types, targets, reflect) ==
    LET start   == Len(SelectSeq(m.globals, LAMBDA g : g.kind = "callsite"))
        calls   == CollectFrom(InstsOf(GetFunction(m, fname)), start, types, targets)
        landing == create_landing_global(m, fname, reflect)
        update  == add_landing_update(landing.module, fname, landing.variable)
    IN  decorate_calls(update.module, fname, calls, update.caller, landing.variable)

\* The calls are decorated with the tree node of the landed block instead of
\* the value add_landing_update returns.
DecorateFunctionCallerFromLanded(m, fname, types, targets, reflect) ==
    LET calls   == collect_calls(GetFunction(m, fname), types, targets)
        landing == create_landing_global(m, fname, reflect)
        update  == add_landing_update(landing.module, fname, landing.variable)
    IN  decorate_calls(update.module, fname, calls, Local("drtiTreenode"), landing.variable)

\* The body of the loop of add_landing_globals for one target function
\* definition: collect its calls, create its landing-site record, rewrite
\* its entry, decorate the collected calls.
DecorateFunction(m, fname, types, targets, reflect) ==
    LET calls   == collect_calls(GetFunction(m, fname), types, targets)
        landing == create_landing_global(m, fname, reflect)
        update  == add_landing_update(landing.module, fname, landing.variable)
    IN  decorate_calls(update.module, fname, calls, update.caller, landing.variable)

\* ------------------------------------------------------------ the pass

VARIABLES
    module,                  \* the llvm::Module the pass runs on
    env,                     \* the environment of the process
    blob,                    \* the support bitcode built into the pass
    pc,                      \* where runOnModule stands
    returned,                \* what runOnModule returned: "none", "false", "true"
    m_target_function_names,
    m_target_functions,
    m_target_function_types,
    m_inline,
    m_reflect_global,
    visited,                 \* the target functions add_landing_globals has been through
    input,                   \* the module as it was handed to the pass
    linked,                  \* the module as add_helpers last left it
    run,                     \* 1 in the first run over the input, 2 in the second,
                             \* 3 in a run over the output of the first
    first,                   \* what the first run produced, once a second run started
    frame                    \* the invocation of a decorated function that is executing

vars ==
    <<module, env, blob, pc, returned, m_target_function_names, m_target_functions,
      m_target_function_types, m_inline, m_reflect_global, visited, input, linked, run, first,
      frame>>

decorator == <<m_target_function_names, m_target_functions, m_target_function_types,
               m_inline, m_reflect_global, visited>>

NoModule == [triple |-> "", types |-> {}, globals |-> <<>>, functions |-> <<>>]

NoProduct == [ran |-> FALSE, table |-> <<>>, sites |-> {}, order |-> <<>>]

\* The globals of one kind, in module order.
GlobalsOfKind(m, kind) == SelectSeq(m.globals, LAMBDA g : g.kind = kind)

\* The address table the module embeds (empty when it has none).
AddressTable(m) ==
    IF GlobalsOfKind(m, "table") = <<>> THEN <<>> ELSE GlobalsOfKind(m, "table")[1].data

\* The global variable a reference names.
GlobalAt(m, ref) == m.globals[CHOOSE k \in 1..Len(m.globals) : RefTo(m.globals[k]) = ref]

\* The decorated calls of the module: a call of the input (num > 0) whose
\* callee is now a cast resolved target, with the call-site record that the
\* call of _drti_call_from before it passes.
DecoratedCallsOf(m, fn) ==
    LET insts == InstsOf(fn)
        calls == {k \in 1..Len(insts) :
                     /\ IsCall(insts[k]) /\ insts[k].num > 0
                     /\ insts[k].callee.sym = "castResolvedTarget"}
        resolver(k) == CHOOSE j \in 1..Len(insts) :
                           /\ IsCall(insts[j]) /\ insts[j].callee.sym = "_drti_call_from"
                           /\ insts[j].res = Val("treenode", "", insts[k].callee.uniq)
    IN  {[function |-> fn.name, num |-> insts[k].num,
          site |-> GlobalAt(m, insts[resolver(k)].ops[1])] : k \in calls}

DecoratedCalls(m) ==
    UNION {DecoratedCallsOf(m, m.functions[k]) : k \in 1..Len(m.functions)}

\* The functions that have a landing-site record, in the order of the records
\* in the module.
LandingOrder(m) ==
    [k \in 1..Len(GlobalsOfKind(m, "landing")) |-> GlobalsOfKind(m, "landing")[k].owner]

\* The (function, call, ordinal) assignments of the decorated calls.
SiteOrdinals(m) == {<<d.function, d.num, d.site.ordinal>> : d \in DecoratedCalls(m)}

\* ------------------------------------------ execution of decorated code

\* The width addresses are computed in; the source computes in 64 bits.
AddressBits == 16

RECURSIVE Pow2(_)
Pow2(n) == IF n = 0 THEN 1 ELSE 2 * Pow2(n - 1)

\* The alignment of the return address of a decorated call and the word in
\* front of it (drti-common.hpp).
DRTI_RETALIGN == 16

DRTI_MAGIC == 51966

RECURSIVE BitAnd(_, _)
BitAnd(a, b) ==
    IF a = 0 \/ b = 0 THEN 0
    ELSE (a % 2) * (b % 2) + 2 * BitAnd(a \div 2, b \div 2)

\* Run-time values: integers, the null tree node, the value of a register
\* read before it was written, and the tree node _drti_caller hands out.
IntVal(n) == Val("int", "", n)

Null == Local("null")

Undef == Val("undef", "", 0)

CallerHandle == Val("caller treenode", "", 0)

\* The constants add_landing_update builds. -DRTI_RETALIGN / sizeof(int64_t)
\* is computed in size_t, so it is the quotient of the wrapped negation.
Constant(v) ==
    CASE v.sym \in {"zero32", "zero64"} -> IntVal(0)
      [] v.sym = "DRTI_RETALIGN - 1"    -> IntVal(DRTI_RETALIGN - 1)
      [] v.sym = "-DRTI_RETALIGN / 8"   -> IntVal((Pow2(AddressBits) - DRTI_RETALIGN) \div 8)
      [] v.sym = "DRTI_MAGIC"           -> IntVal(DRTI_MAGIC)
      [] OTHER                          -> v

\* No invocation: the frame before a decorated function is entered.
NoFrame ==
    [fn |-> "", block |-> "", from |-> "", next |-> "", ra |-> 0, word |-> 0,
     regs |-> <<>>, events |-> <<>>, path |-> <<>>, nums |-> <<>>]

\* The value of an operand: the value its register holds, Undef for a
\* register of the function not written yet, the constant otherwise.
Operand(st, fn, v) ==
    IF \E k \in 1..Len(st.regs) : st.regs[k].reg = v
    THEN st.regs[CHOOSE k \in 1..Len(st.regs) : st.regs[k].reg = v].value
    ELSE IF v # NoVal /\ \E i \in Range(InstsOf(fn)) : i.res = v
    THEN Undef
    ELSE Constant(v)

\* The word a load reads: at the address DRTI_RETALIGN bytes before the
\* return address the word of this invocation, 0 elsewhere; a load from a
\* member of a structure yields the member.
Load(st, address) ==
    IF "sym" \in DOMAIN address
    THEN IntVal(IF address = IntVal((st.ra + Pow2(AddressBits) - DRTI_RETALIGN) % Pow2(AddressBits))
             THEN st.word ELSE 0)
    ELSE [loaded |-> address]

\* What a call returns.
CallResult(st, i) ==
    CASE i.direct /\ i.callee.sym = "llvm.returnaddress" -> IntVal(st.ra)
      [] i.direct /\ i.callee.sym = "_drti_caller"       -> CallerHandle
      [] i.direct /\ i.callee.sym = "_drti_call_from"    ->
            Val("node", "", 1 + Len(SelectSeq(st.events,
                                    LAMBDA e : e.callee = Local("_drti_call_from"))))
      [] OTHER                                           -> Val("result", "", i.num)

\* The value an instruction computes.
Result(st, fn, i) ==
    LET op(k) == Operand(st, fn, i.ops[k])
    IN  CASE i.op = "alloca"    -> Val("stack", i.res.sym, 0)
          [] i.op = "call"      -> CallResult(st, i)
          [] i.op \in {"ptrtoint", "inttoptr", "bitcast"} -> op(1)
          [] i.op = "and"       -> IntVal(BitAnd(op(1).uniq, op(2).uniq))
          [] i.op = "icmp eq"   -> IntVal(IF op(1) = op(2) THEN 1 ELSE 0)
          [] i.op = "gep"       -> IntVal((op(1).uniq + 8 * op(2).uniq) % Pow2(AddressBits))
          [] i.op = "structgep" -> [base |-> op(1), field |-> i.ops[2].uniq]
          [] i.op = "load"      -> Load(st, op(1))
          [] i.op = "phi"       ->
                op(2 * (CHOOSE k \in 1..(Len(i.ops) \div 2) : i.ops[2 * k].sym = st.from) - 1)
          [] OTHER              -> NoVal

\* What the execution of a call or of a load leaves in the trace.
Event(st, fn, i) ==
    [kind   |-> i.op,
     callee |-> IF i.op # "call" THEN NoVal
                ELSE IF i.direct THEN i.callee ELSE Operand(st, fn, i.callee),
     args   |-> [k \in 1..Len(i.ops) |-> Operand(st, fn, i.ops[k])],
     result |-> Result(st, fn, i),
     block  |-> st.block,
     num    |-> i.num,
     tail   |-> i.tail]

\* The execution of one instruction.
Step(st, fn, i) ==
    LET st1 == IF i.res = NoVal THEN st
               ELSE [st EXCEPT !.regs = Append(@, [reg |-> i.res, value |-> Result(st, fn, i)])]
        st2 == IF i.op \in {"call", "load"}
               THEN [st1 EXCEPT !.events = Append(@, Event(st, fn, i))]
               ELSE st1
        st3 == IF i.num > 0 THEN [st2 EXCEPT !.nums = Append(@, i.num)] ELSE st2
    IN  CASE i.op = "condbr" ->
                [st3 EXCEPT !.next = IF Operand(st, fn, i.ops[1]) = IntVal(1)
                                     THEN i.ops[2].sym ELSE i.ops[3].sym]
          [] i.op = "br"     -> [st3 EXCEPT !.next = i.ops[1].sym]
          [] i.op = "ret"    -> [st3 EXCEPT !.next = ""]
          [] OTHER           -> st3

RECURSIVE RunInsts(_, _, _)
RunInsts(st, fn, insts) ==
    IF insts = <<>> THEN st ELSE RunInsts(Step(st, fn, Head(insts)), fn, Tail(insts))

\* The return addresses and the words in front of them that an invocation
\* is entered with.
ReturnAddresses == {2 * DRTI_RETALIGN, 2 * DRTI_RETALIGN + 8, 2 * DRTI_RETALIGN + 3}

Words == {DRTI_MAGIC, 0}

Init ==
    /\ module \in InputModules
    /\ env \in Environments
    /\ blob \in Blobs
    /\ pc = "entry"
    /\ returned = "none"
    /\ m_target_function_names = {}
    /\ m_target_functions = {}
    /\ m_target_function_types = {}
    /\ m_inline = NoHelpers
    /\ m_reflect_global = NoVal
    /\ visited = {}
    /\ input = module
    /\ linked = NoModule
    /\ run = 1
    /\ first = NoProduct
    /\ frame = NoFrame

\* The triple the pass sets passes for the supported one.
IsSupportedTargetOrDecorated(targetTriple) == targetTriple \in {SupportedTriple, DrtiTriple}

\* A triple other than the supported one passes for it.
IsSupportedTargetLoose(targetTriple) == targetTriple # ""

\* The test runOnModule makes of the target triple.
IsSupportedTarget(targetTriple) == targetTriple = SupportedTriple

\* runOnModule, the test of the target triple.
CheckTriple ==
    /\ pc = "entry"
    /\ IF ~IsSupportedTarget(module.triple)
       THEN pc' = "returned" /\ returned' = "false"
       ELSE pc' = "construct" /\ UNCHANGED returned
    /\ UNCHANGED <<module, env, blob, decorator, input, linked, run, first, frame>>

\* DecoratePass::DecoratePass: the target names come from the environment,
\* and an empty set of names is a fatal error.
Construct ==
    /\ pc = "construct"
    /\ m_target_function_names' = targets_from_environment(env)
    /\ pc' = IF targets_from_environment(env) = {} THEN "aborted" ELSE "find"
    /\ UNCHANGED <<module, env, blob, returned, m_target_functions, m_target_function_types,
                   m_inline, m_reflect_global, visited, input, linked, run, first, frame>>

\* find_target_functions, and the return of runOnModule when it finds none.
FindTargetFunctions ==
    /\ pc = "find"
    /\ m_target_functions' = TargetFunctions(module, m_target_function_names)
    /\ m_target_function_types' = TargetFunctionTypes(module, m_target_function_names)
    /\ IF TargetFunctions(module, m_target_function_names) = {}
       THEN pc' = "returned" /\ returned' = "false"
       ELSE pc' = "link" /\ UNCHANGED returned
    /\ UNCHANGED <<module, env, blob, m_target_function_names, m_inline, m_reflect_global,
                   visited, input, linked, run, first, frame>>

\* add_helpers: a blob that does not parse is a fatal error; a link conflict
\* makes add_helpers return false and runOnModule return false; otherwise the
\* support module is linked in.
AddHelpers ==
    /\ pc = "link"
    /\ IF ~blob.parses
       THEN pc' = "aborted" /\ UNCHANGED <<module, returned, linked>>
       ELSE IF LinkConflicts(module, blob.module) # {}
       THEN /\ module' \in LinkFailures(module, blob.module)
            /\ linked' = module'
            /\ pc' = "returned"
            /\ returned' = "false"
       ELSE /\ module' = LinkInModule(module, blob.module)
            /\ linked' = module'
            /\ pc' = "lookup"
            /\ UNCHANGED returned
    /\ UNCHANGED <<env, blob, decorator, input, run, first, frame>>

\* lookup_helpers, and the return of runOnModule when a helper is missing.
LookupHelpers ==
    /\ pc = "lookup"
    /\ m_inline' = InlineHelpers(module)
    /\ IF ~ok(InlineHelpers(module))
       THEN pc' = "returned" /\ returned' = "true"
       ELSE pc' = "self" /\ UNCHANGED returned
    /\ UNCHANGED <<module, env, blob, m_target_function_names, m_target_functions,
                   m_target_function_types, m_reflect_global, visited, input, linked, run, first, frame>>

\* create_self.
CreateSelf ==
    /\ pc = "self"
    /\ module' = create_self(module).module
    /\ m_reflect_global' = create_self(module).m_reflect_global
    /\ pc' = "landing"
    /\ UNCHANGED <<env, blob, returned, m_target_function_names, m_target_functions,
                   m_target_function_types, m_inline, visited, input, linked, run, first, frame>>

\* One iteration of the loop of add_landing_globals. m_target_functions is a
\* DenseSet of pointers, so the loop may take the functions in any order.
AddLandingGlobals ==
    /\ pc = "landing"
    /\ \E fname \in m_target_functions \ visited :
          /\ module' = IF GetFunction(module, fname).decl THEN module
                       ELSE DecorateFunction(module, fname, m_target_function_types,
                                             m_target_functions, m_reflect_global)
          /\ visited' = visited \cup {fname}
    /\ UNCHANGED <<env, blob, pc, returned, m_target_function_names, m_target_functions,
                   m_target_function_types, m_inline, m_reflect_global, input, linked, run, first, frame>>

\* The end of runOnModule after the loop: the triple is set and the pass
\* returns true.
SetTargetTriple ==
    /\ pc = "landing"
    /\ visited = m_target_functions
    /\ module' = [module EXCEPT !.triple = DrtiTriple]
    /\ pc' = "returned"
    /\ returned' = "true"
    /\ UNCHANGED <<env, blob, decorator, input, linked, run, first, frame>>

\* The pass is run once more on the same input, with the same environment
\* and the same support bitcode, after a run that decorated it.
RunAgain ==
    /\ pc = "returned"
    /\ run = 1
    /\ module.triple = DrtiTriple
    /\ first' = [ran |-> TRUE, table |-> AddressTable(module), sites |-> SiteOrdinals(module),
                 order |-> LandingOrder(module)]
    /\ run' = 2
    /\ module' = input
    /\ pc' = "entry"
    /\ returned' = "none"
    /\ m_target_function_names' = {}
    /\ m_target_functions' = {}
    /\ m_target_function_types' = {}
    /\ m_inline' = NoHelpers
    /\ m_reflect_global' = NoVal
    /\ visited' = {}
    /\ linked' = NoModule
    /\ UNCHANGED <<env, blob, input, frame>>

\* The pass is run on its own output: the module the first run decorated is
\* handed to runOnModule again, with the same environment and the same
\* support bitcode.
RunOnOutput ==
    /\ pc = "returned"
    /\ run = 1
    /\ module.triple = DrtiTriple
    /\ run' = 3
    /\ input' = module
    /\ pc' = "entry"
    /\ returned' = "none"
    /\ m_target_function_names' = {}
    /\ m_target_functions' = {}
    /\ m_target_function_types' = {}
    /\ m_inline' = NoHelpers
    /\ m_reflect_global' = NoVal
    /\ visited' = {}
    /\ UNCHANGED <<module, env, blob, linked, first, frame>>

\* A decorated target function definition of the module a completed run
\* returned is called.
Enter ==
    /\ pc = "returned" /\ returned = "true"
    /\ run = 1
    /\ module.triple = DrtiTriple
    /\ frame = NoFrame
    /\ \E fname \in m_target_functions, ra \in ReturnAddresses, word \in Words :
          /\ ~GetFunction(module, fname).decl
          /\ frame' = [NoFrame EXCEPT !.fn = fname, !.ra = ra, !.word = word,
                                      !.block = GetFunction(module, fname).blocks[1].label]
    /\ UNCHANGED <<module, env, blob, pc, returned, decorator, input, linked, run, first>>

\* The invocation executes the block it stands at and goes to the successor
\* the terminator of the block names.
ExecuteBlock ==
    /\ frame.block # ""
    /\ LET fn    == GetFunction(module, frame.fn)
           block == fn.blocks[CHOOSE k \in 1..Len(fn.blocks) : fn.blocks[k].label = frame.block]
           st    == RunInsts(frame, fn, block.insts)
       IN  frame' = [st EXCEPT !.from = frame.block, !.block = st.next, !.next = "",
                               !.path = Append(@, frame.block)]
    /\ UNCHANGED <<module, env, blob, pc, returned, decorator, input, linked, run, first>>

Next ==
    \/ CheckTriple
    \/ Construct
    \/ FindTargetFunctions
    \/ AddHelpers
    \/ LookupHelpers
    \/ CreateSelf
    \/ AddLandingGlobals
    \/ SetTargetTriple
    \/ RunAgain
    \/ RunOnOutput

Spec == Init /\ [][Next]_vars

\* The runs that complete, followed by the execution of the decorated code.
InitExecution ==
    /\ Init
    /\ module.triple = SupportedTriple
    /\ ~HasFunction(module, "_drti_call_from")
    /\ blob.parses /\ ok(InlineHelpers(LinkInModule(module, blob.module)))
    /\ env.names.present /\ env.names.words # <<>>
    /\ ~env.file.present \/ (env.file.readable /\ env.file.words = <<"h">>)

NextExecution ==
    \/ CheckTriple
    \/ Construct
    \/ FindTargetFunctions
    \/ AddHelpers
    \/ LookupHelpers
    \/ CreateSelf
    \/ AddLandingGlobals
    \/ SetTargetTriple
    \/ Enter
    \/ ExecuteBlock

SpecExecution == InitExecution /\ [][NextExecution]_vars

\* ---------------------------------------------------- what the claims use

\* The module the embedded snapshot deserializes to.
HasSnapshot == GlobalsOfKind(module, "bitcode") # <<>>

Snapshot == Deserialize(GlobalsOfKind(module, "bitcode")[1].data)

LandingLabels == {"drti_land1", "drti_land2", "drti_land3"}

\* A module without any trace of decoration: no global the pass creates, no
\* landing block, no call of the resolver or of the marker.
Undecorated(m) ==
    /\ \A g \in Range(m.globals) : g.kind = "var"
    /\ \A fn \in Range(m.functions) :
          /\ \A b \in Range(fn.blocks) : b.label \notin LandingLabels
          /\ \A i \in Range(InstsOf(fn)) :
                ~(IsCall(i) /\ i.callee.sym \in {"_drti_call_from", "_drti_set_caller"})

\* s is m with the no-optimize and no-inline markers off every definition.
SameButMarkers(s, m) ==
    /\ s.triple = m.triple
    /\ s.types = m.types
    /\ s.globals = m.globals
    /\ Len(s.functions) = Len(m.functions)
    /\ \A k \in 1..Len(m.functions) :
          /\ [s.functions[k] EXCEPT !.attrs = {}] = [m.functions[k] EXCEPT !.attrs = {}]
          /\ s.functions[k].attrs =
                IF m.functions[k].decl THEN m.functions[k].attrs
                ELSE m.functions[k].attrs \ {"optnone", "noinline"}

\* The names the two configuration sources yield.
NamesIn(e) ==
    (IF e.names.present THEN Range(e.names.words) ELSE {})
    \cup (IF e.file.present /\ e.file.readable THEN Range(e.file.words) ELSE {})

\* Both configuration sources are absent or yield no names.
NoNames(e) ==
    /\ ~e.names.present \/ e.names.words = <<>>
    /\ ~e.file.present \/ ~e.file.readable \/ e.file.words = <<>>

\* The number of instructions before the instruction num of fn that Counts
\* holds of.
CallsBefore(fn, num, Counts(_)) ==
    LET insts == InstsOf(fn)
        at    == CHOOSE k \in 1..Len(insts) : insts[k].num = num
    IN  Cardinality({k \in 1..(at - 1) : Counts(insts[k])})

NotAsmCall(i) == IsCall(i) /\ ~i.asm

\* ------------------------------------------------------------------ C1

\* C1: whenever the module holds a snapshot, the snapshot deserializes to the
\* module as support linking left it with the no-optimize and no-inline
\* markers off every function definition, and it holds no landing block, no
\* resolver or marker call, no LandingSite or CallSite record and none of the
\* snapshot, address-table and SelfDescriptor globals.
C1_SnapshotIsPreDecoration ==
    HasSnapshot => SameButMarkers(Snapshot, linked) /\ Undecorated(Snapshot)

\* A finished run whose module is decorated and whose linked module had
\* marked definitions.
C1_Witness ==
    /\ pc = "returned"
    /\ HasSnapshot
    /\ DecoratedCalls(module) # {}
    /\ ~Undecorated(module)
    /\ \E fn \in Range(linked.functions) : ~fn.decl /\ fn.attrs # {}

\* ------------------------------------------------------------------ C2

\* C2 as stated: the ordinal of every CallSite record is the number of call
\* instructions, inline assembly included, before its call in the function
\* as the snapshot and the linked module hold it.
C2_OrdinalCountsEveryCall ==
    \A d \in DecoratedCalls(module) :
        /\ d.site.owner = d.function
        /\ d.site.ordinal = CallsBefore(GetFunction(Snapshot, d.function), d.num, IsCall)

\* C2 amended: the ordinal of every CallSite record is the number of call
\* instructions other than inline-assembly calls before its call, in the
\* function as the linked module held it before decoration and as the
\* snapshot holds it.
C2_OrdinalCountsCallsButAsm ==
    \A d \in DecoratedCalls(module) :
        /\ d.site.owner = d.function
        /\ d.site.ordinal = CallsBefore(GetFunction(linked, d.function), d.num, NotAsmCall)
        /\ d.site.ordinal = CallsBefore(GetFunction(Snapshot, d.function), d.num, NotAsmCall)

\* A finished run with a decorated call that follows an undecorated call and
\* a decorated call that follows an inline-assembly call.
C2_Witness ==
    /\ pc = "returned"
    /\ \E d \in DecoratedCalls(module) :
          /\ d.site.ordinal >= 1
          /\ Cardinality({e \in DecoratedCalls(module) : e.function = d.function}) = 1
    /\ \E d \in DecoratedCalls(module) :
          CallsBefore(GetFunction(linked, d.function), d.num, IsCall) > d.site.ordinal

\* ------------------------------------------------------------------ C3

\* C3: a module whose triple is not the supported one is never changed by the
\* pass, the pass never aborts on it, and the pass returns false for it.
C3_UnsupportedTargetUnchanged ==
    input.triple # SupportedTriple =>
        /\ module = input
        /\ pc \in {"entry", "returned"}
        /\ pc = "returned" => returned = "false"

\* The pass has returned for a module of another triple, with no target
\* configured at all.
C3_Witness ==
    pc = "returned" /\ input.triple = OtherTriple /\ NoNames(env) /\ module = input

\* ------------------------------------------------------------------ C4

\* C4 as stated: when both configuration sources are absent or yield no
\* names the pass never returns.
C4_NoNamesNeverReturns == NoNames(env) => pc # "returned"

\* C4 amended: when the triple is the supported one and both configuration
\* sources are absent or yield no names, the pass gets no further than the
\* construction of the decorator, which aborts: it never returns, and never
\* looks for targets.
C4_NoNamesAbortsOnSupportedTarget ==
    (NoNames(env) /\ input.triple = SupportedTriple) =>
        /\ pc \in {"entry", "construct", "aborted"}
        /\ module = input

\* The pass has aborted with a targets file named that does not open.
C4_Witness ==
    /\ pc = "aborted"
    /\ NoNames(env)
    /\ env.file.present
    /\ input.triple = SupportedTriple

\* ------------------------------------------------------------------ C5

\* C5 as stated: when no function definition of the module has a target
\* name, a pass that returns has left the module as it was and returns
\* false.
C5_NoTargetDefinitionNoOp ==
    (/\ pc = "returned"
     /\ \A fn \in Range(input.functions) : fn.name \in NamesIn(env) => fn.decl)
    => (module = input /\ returned = "false")

\* C5 amended: when target names are configured and no function of the
\* module, defined or declared, has one of them, the pass never changes the
\* module, never gets to linking, and returns false.
C5_NoTargetFunctionNoOp ==
    (/\ NamesIn(env) # {}
     /\ \A fn \in Range(input.functions) : fn.name \notin NamesIn(env))
    => /\ module = input
       /\ pc \in {"entry", "construct", "find", "returned"}
       /\ pc = "returned" => returned = "false"

\* The pass has returned for a module of the supported triple that has no
\* function of the one configured name.
C5_Witness ==
    /\ pc = "returned"
    /\ input.triple = SupportedTriple
    /\ NamesIn(env) = {"k"}
    /\ m_target_function_names = {"k"}
    /\ module = input

\* ------------------------------------------------------------------ C6

\* C6: a pass that met a link conflict while linking the support module does
\* not return to its caller.
C6_LinkConflictNeverReturns ==
    ~(pc = "returned" /\ linked # NoModule /\ LinkConflicts(input, blob.module) # {})

\* ------------------------------------------------------------------ C7

\* The four structure types and the two hand-off routines are in the module.
LayoutValid(m) ==
    /\ \A t \in SupportTypes : t \in m.types
    /\ \A r \in Routines : HasFunction(m, r)

\* C7: when the support module was linked and a structure type or a hand-off
\* routine is missing from the linked module, the pass goes no further than
\* the lookup: the module stays exactly as linking left it, with its triple,
\* and holds no snapshot, address table, SelfDescriptor, landing or call-site
\* instrumentation.
C7_LayoutFailureLeavesLinkedModule ==
    (/\ linked # NoModule
     /\ LinkConflicts(input, blob.module) = {}
     /\ ~LayoutValid(linked))
    => /\ module = linked
       /\ module.triple = input.triple
       /\ Undecorated(module)
       /\ pc \in {"lookup", "returned"}

\* The pass has returned from a linked module that lacks a hand-off routine
\* and has all four types.
C7_Witness ==
    /\ pc = "returned"
    /\ linked # NoModule /\ linked # input
    /\ LinkConflicts(input, blob.module) = {}
    /\ \A t \in SupportTypes : t \in linked.types
    /\ ~HasFunction(linked, "_drti_call_from")
    /\ m_target_functions # {}

\* ------------------------------------------------------------------ C8

\* C8: a second run over the same input ends with the address table and the
\* (function, call, ordinal) assignments of the first run, whatever the
\* order either run took the target functions in.
C8_SecondRunSameEnumeration ==
    (run = 2 /\ pc = "returned") =>
        /\ module.triple = DrtiTriple
        /\ AddressTable(module) = first.table
        /\ SiteOrdinals(module) = first.sites

\* The second run has finished, it took g before f where the first took f
\* before g, and both functions have decorated calls.
C8_Witness ==
    /\ run = 2 /\ pc = "returned"
    /\ first.order = <<"f", "g">>
    /\ LandingOrder(module) = <<"g", "f">>
    /\ \E d \in DecoratedCalls(module) : d.function = "f"
    /\ \E d \in DecoratedCalls(module) : d.function = "g"
    /\ first.table # <<>>

\* ------------------------------------------------------------------ C9

\* The enumeration of the symbols of a module: its listed global variables,
\* then its function declarations that are no intrinsics.
SymbolsOf(m) ==
    LET variables == SelectSeq(m.globals, LAMBDA g : g.kind = "var" /\ g.listed)
        functions == SelectSeq(m.functions, LAMBDA fn : fn.decl /\ ~fn.intrinsic)
    IN  [k \in 1..Len(variables) |-> variables[k].name]
        \o [k \in 1..Len(functions) |-> functions[k].name]

TableSymbols(m) == [k \in 1..Len(AddressTable(m)) |-> AddressTable(m)[k].sym]

\* C9: the address table is the enumeration of the symbols of the linked
\* module, entry for entry the enumeration of the symbols of the deserialized
\* snapshot, and no entry is a function definition, an intrinsic or a symbol
\* that decoration adds.
C9_TableIsSnapshotEnumeration ==
    HasSnapshot =>
        /\ TableSymbols(module) = SymbolsOf(linked)
        /\ TableSymbols(module) = SymbolsOf(Snapshot)
        /\ \A k \in 1..Len(AddressTable(module)) :
              LET sym == AddressTable(module)[k].sym
              IN  /\ sym \notin {"llvm.returnaddress", "_drti_caller", "_drti_set_caller"}
                  /\ HasFunction(Snapshot, sym) =>
                        /\ GetFunction(Snapshot, sym).decl
                        /\ ~GetFunction(Snapshot, sym).intrinsic

\* A decorated module: decoration has added declarations, the module has an
\* intrinsic, and the table holds a variable and a declaration that came
\* with the support module.
C9_Witness ==
    /\ pc = "returned"
    /\ HasSnapshot
    /\ HasFunction(module, "_drti_set_caller") /\ HasFunction(module, "_drti_caller")
    /\ HasFunction(Snapshot, "llvm.memcpy")
    /\ {"counter", "_drti_debug", "_drti_new_tree"} \subseteq Range(TableSymbols(module))

\* ----------------------------------------------------------------- C10

\* The target function definitions: the definitions of the input whose name
\* is configured.
IsTargetDefinition(name) ==
    /\ name \in NamesIn(env)
    /\ HasFunction(input, name)
    /\ ~GetFunction(input, name).decl

\* The calls of fn worth decorating: the callee's type is the type of a
\* function of the input with a configured name, and the callee is not a
\* function without a configured name.
WorthyCalls(fn) ==
    LET targets == {t \in Range(input.functions) : t.name \in NamesIn(env)}
        insts   == InstsOf(fn)
    IN  {k \in 1..Len(insts) :
            /\ NotAsmCall(insts[k])
            /\ insts[k].fty \in {t.fty : t \in targets}
            /\ ~(insts[k].direct /\ insts[k].callee.sym \notin {t.name : t \in targets})}

\* The landing instrumentation of a function for its landing-site record:
\* the entry block ends with the test of the return address, the continue
\* block starts with the phi, and the probe and landed blocks are there, the
\* latter with the call of _drti_landed for the record.
FullyInstrumented(fn, landing) ==
    /\ [k \in 1..Len(fn.blocks) |-> fn.blocks[k].label] \in
          {<<"entry", "drti_land1", "drti_land2", "drti_land3">>,
           <<"entry", "drti_land1", "body", "drti_land2", "drti_land3">>}
    /\ \E i \in Range(fn.blocks[1].insts) : IsCall(i) /\ i.callee.sym = "llvm.returnaddress"
    /\ fn.blocks[1].insts[Len(fn.blocks[1].insts)].op = "condbr"
    /\ fn.blocks[2].insts[1].op = "phi"
    /\ \E i \in Range(fn.blocks[Len(fn.blocks)].insts) :
          /\ IsCall(i) /\ i.callee.sym = "_drti_landed"
          /\ i.ops[1] = RefTo(landing)

RecordsFor(kind, name) == {g \in Range(module.globals) : g.kind = kind /\ g.owner = name}

\* C10: when a decorating run has returned, every target function definition
\* has exactly one LandingSite record and the landing instrumentation for
\* it, and as many CallSite records as it had calls worth decorating; every
\* other function of the linked module has no record and the blocks it had.
C10_LandingForEveryTargetDefinition ==
    (pc = "returned" /\ module.triple = DrtiTriple) =>
        \A fn \in Range(linked.functions) :
            IF IsTargetDefinition(fn.name)
            THEN /\ Cardinality(RecordsFor("landing", fn.name)) = 1
                 /\ \A l \in RecordsFor("landing", fn.name) :
                       FullyInstrumented(GetFunction(module, fn.name), l)
                 /\ Cardinality(RecordsFor("callsite", fn.name)) = Cardinality(WorthyCalls(fn))
                 /\ Cardinality(DecoratedCallsOf(module, GetFunction(module, fn.name)))
                       = Cardinality(WorthyCalls(fn))
            ELSE /\ RecordsFor("landing", fn.name) = {}
                 /\ RecordsFor("callsite", fn.name) = {}
                 /\ GetFunction(module, fn.name).blocks = fn.blocks

\* A decorating run has returned; a target definition had no call worth
\* decorating and another had one, and a configured name is only declared.
C10_Witness ==
    /\ pc = "returned" /\ module.triple = DrtiTriple
    /\ IsTargetDefinition("f") /\ WorthyCalls(GetFunction(linked, "f")) = {}
    /\ Len(InstsOf(GetFunction(linked, "f"))) > 3
    /\ RecordsFor("landing", "f") # {}
    /\ "h" \in NamesIn(env)
    /\ \E fn \in Range(linked.functions) : ~fn.decl /\ ~IsTargetDefinition(fn.name)

\* ----------------------------------------------------------------- C11

\* The run has embedded the snapshot, has been through every target function
\* and has returned true.
Completed ==
    /\ pc = "returned" /\ returned = "true"
    /\ m_reflect_global # NoVal
    /\ GlobalsOfKind(module, "reflect") # <<>>
    /\ visited = m_target_functions
    /\ \A name \in m_target_functions :
          GetFunction(module, name).decl \/ RecordsFor("landing", name) # {}

\* C11: the triple of the module differs from the triple the run was handed
\* exactly when the run has completed snapshot embedding and decoration, and
\* it is then the suffixed triple; in every other state of a run, and after
\* every other return, it is the triple the run was handed.
C11_TripleChangedExactlyWhenCompleted ==
    /\ (module.triple # input.triple) <=> Completed
    /\ module.triple # input.triple => module.triple = DrtiTriple
    /\ (pc = "returned" /\ HasSnapshot /\ run # 3) => Completed

\* A run has completed and re-tagged its module, which it had linked the
\* support module into and decorated a call of.
C11_Witness ==
    /\ Completed
    /\ input.triple = SupportedTriple /\ module.triple = DrtiTriple
    /\ DecoratedCalls(module) # {}

\* A run has returned true from a layout failure with the triple it was
\* handed.
C11_WitnessNotCompleted ==
    pc = "returned" /\ returned = "true" /\ ~HasSnapshot /\ module.triple = SupportedTriple

\* ----------------------------------------------------------------- C12

Aligned(ra) == ra % DRTI_RETALIGN = 0

\* The landing is confirmed in the invocation: the return address is aligned
\* and the word in front of it is the magic constant.
Confirmed == Aligned(frame.ra) /\ frame.word = DRTI_MAGIC

\* The reads of memory through an address computed from an integer.
Probes == SelectSeq(frame.events, LAMBDA e : e.kind = "load" /\ "sym" \in DOMAIN e.args[1])

CallsOf(name) == SelectSeq(frame.events, LAMBDA e : e.kind = "call" /\ e.callee = Local(name))

\* The blocks the invocation has executed and the block it stands at.
Trail == frame.path \o (IF frame.block = "" THEN <<>> ELSE <<frame.block>>)

\* The way from entry to the continue block.
LandingPath ==
    IF ~Aligned(frame.ra) THEN <<"entry", "drti_land1">>
    ELSE IF frame.word # DRTI_MAGIC THEN <<"entry", "drti_land2", "drti_land1">>
    ELSE <<"entry", "drti_land2", "drti_land3", "drti_land1">>

InContinue == \E k \in 1..Len(Trail) : Trail[k] = "drti_land1"

Finished == frame.fn # "" /\ frame.block = ""

OriginalNums(fn) ==
    LET insts == InstsOf(fn) IN [k \in 1..Len(insts) |-> insts[k].num]

\* C12: in an invocation of an instrumented target function the word in
\* front of the return address is read only when the return address is
\* aligned, and then once, in the probe block, at DRTI_RETALIGN bytes before
\* the return address; _drti_landed is called once, for the landing-site
\* record of the function, when the return address is aligned and the word is
\* the magic constant, and never otherwise; the invocation goes from entry to
\* the continue block by the way its case prescribes, and from there executes
\* the instructions of the original function, all of them and in their order.
C12_LandingStateMachine ==
    frame.fn # "" =>
        /\ LET n == IF Len(Trail) < Len(LandingPath) THEN Len(Trail) ELSE Len(LandingPath)
           IN  SubSeq(Trail, 1, n) = SubSeq(LandingPath, 1, n)
        /\ Len(Probes) <= 1
        /\ \A k \in 1..Len(Probes) :
              /\ Aligned(frame.ra)
              /\ Probes[k].block = "drti_land2"
              /\ Probes[k].args[1].uniq = frame.ra - DRTI_RETALIGN
        /\ Len(CallsOf("_drti_landed")) <= 1
        /\ \A k \in 1..Len(CallsOf("_drti_landed")) :
              /\ Confirmed
              /\ CallsOf("_drti_landed")[k].block = "drti_land3"
              /\ \E l \in RecordsFor("landing", frame.fn) :
                    CallsOf("_drti_landed")[k].args = <<RefTo(l), CallerHandle>>
        /\ InContinue =>
              /\ Len(CallsOf("_drti_landed")) = IF Confirmed THEN 1 ELSE 0
              /\ Len(Probes) = IF Aligned(frame.ra) THEN 1 ELSE 0
        /\ Finished => frame.nums = OriginalNums(GetFunction(linked, frame.fn))

\* An invocation with a confirmed landing has returned: it went through the
\* probe and the landed block to the continue block and executed a decorated
\* call of the body.
C12_Witness ==
    /\ Finished /\ Confirmed
    /\ Len(Probes) = 1 /\ Len(CallsOf("_drti_landed")) = 1
    /\ SubSeq(frame.path, 1, 4) = <<"entry", "drti_land2", "drti_land3", "drti_land1">>
    /\ Len(CallsOf("_drti_call_from")) >= 1
    /\ Len(frame.nums) >= 4

\* An invocation whose return address is aligned and whose probe did not
\* find the magic constant has returned.
C12_WitnessMismatch ==
    Finished /\ Aligned(frame.ra) /\ frame.word # DRTI_MAGIC /\ Len(Probes) = 1

\* An invocation whose return address is not aligned has returned.
C12_WitnessNotAligned ==
    Finished /\ ~Aligned(frame.ra) /\ frame.word = DRTI_MAGIC /\ Len(Probes) = 0

\* ----------------------------------------------------------------- C13

\* The value of the continue block of a function: what the phi that block
\* starts with defines.
ContinueValue(fn) ==
    LET at == CHOOSE k \in 1..Len(fn.blocks) : fn.blocks[k].label = "drti_land1"
    IN  fn.blocks[at].insts[1].res

\* The calls of the resolver in a function, as instructions.
ResolverCalls(fn) ==
    SelectSeq(InstsOf(fn), LAMBDA i : IsCall(i) /\ i.direct /\ i.callee.sym = "_drti_call_from")

\* C13: in an invocation of a decorated target function every call of
\* _drti_call_from gets as its caller argument the operand that the phi of
\* the function's own continue block defines; when it executes, the
\* continue block has been entered, and that value is the tree node
\* _drti_caller returned in this invocation when the landing was confirmed
\* and the null tree node when it was not; it is never the value of a
\* register not yet written.
C13_CallerHandleIsContinueValue ==
    frame.fn # "" =>
        LET fn    == GetFunction(module, frame.fn)
            calls == CallsOf("_drti_call_from")
        IN  /\ \A k \in 1..Len(ResolverCalls(fn)) :
                  ResolverCalls(fn)[k].ops[2] = ContinueValue(fn)
            /\ \A k \in 1..Len(calls) :
                  /\ InContinue
                  /\ calls[k].args[2] # Undef
                  /\ calls[k].args[2] = Operand(frame, fn, ContinueValue(fn))
                  /\ calls[k].args[2] = IF Confirmed THEN CallerHandle ELSE Null
                  /\ Confirmed =>
                        /\ Len(CallsOf("_drti_caller")) = 1
                        /\ calls[k].args[2] = CallsOf("_drti_caller")[1].result

\* An invocation that probed and found no magic constant has executed two
\* decorated calls.
C13_Witness ==
    /\ Finished /\ Aligned(frame.ra) /\ ~Confirmed
    /\ Len(CallsOf("_drti_call_from")) = 2
    /\ CallsOf("_drti_call_from")[2].args[2] = Null

\* An invocation with a confirmed landing has executed a decorated call.
C13_WitnessConfirmed ==
    /\ Finished /\ Confirmed
    /\ Len(CallsOf("_drti_call_from")) >= 1
    /\ CallsOf("_drti_call_from")[1].args[2] = CallerHandle

\* ----------------------------------------------------------------- C14

\* The TargetSignatures: the function types of the functions of the input,
\* declared or defined, that have a configured name.
TargetSignatures ==
    {fn.fty : fn \in {t \in Range(input.functions) : t.name \in NamesIn(env)}}

IsTarget(name) == name \in NamesIn(env) /\ HasFunction(input, name)

\* The call i of the linked module is to a function the module knows that
\* is no target, and that is only declared.
ToNonTargetDeclaration(i) ==
    /\ i.direct /\ HasFunction(linked, i.callee.sym)
    /\ ~IsTarget(i.callee.sym)
    /\ GetFunction(linked, i.callee.sym).decl

\* The call i of the linked module is to a function the module knows that
\* is no target, declared or defined.
ToNonTarget(i) ==
    i.direct /\ HasFunction(linked, i.callee.sym) /\ ~IsTarget(i.callee.sym)

IsDecorated(name, i) ==
    \E d \in DecoratedCallsOf(module, GetFunction(module, name)) : d.num = i.num

\* The call instructions of a function, as the linked module held them.
CallsIn(name) == {i \in Range(InstsOf(GetFunction(linked, name))) : IsCall(i)}

C14_WitnessAsm ==
    /\ pc = "returned" /\ module.triple = DrtiTriple /\ run = 1
    /\ IsTargetDefinition("g")
    /\ \E i \in CallsIn("g") : i.asm /\ i.fty \in TargetSignatures /\ ~IsDecorated("g", i)

\* ----------------------------------------------------------------- C15

\* The instruction of the linked module that the instruction num of the
\* function was.
OriginalInst(name, num) ==
    LET insts == InstsOf(GetFunction(linked, name))
    IN  insts[CHOOSE k \in 1..Len(insts) : insts[k].num = num]

IsDecoratedCall(i) == IsCall(i) /\ i.num > 0 /\ i.callee.sym = "castResolvedTarget"

IsCallSiteOf(ref, name) ==
    \E k \in 1..Len(module.globals) :
        /\ RefTo(module.globals[k]) = ref
        /\ module.globals[k].kind = "callsite"
        /\ module.globals[k].owner = name

\* The six instructions before the decorated call at k of the block b of fn
\* are the rewritten sequence, and the call is the old call but for its
\* target and its tail-call kind.
RewrittenAt(fn, b, k) ==
    k > 6 /\
    LET call     == b.insts[k]
        old      == OriginalInst(fn.name, call.num)
        cast     == b.insts[k - 6]
        resolve  == b.insts[k - 5]
        member   == b.insts[k - 4]
        load     == b.insts[k - 3]
        recast   == b.insts[k - 2]
        marker   == b.insts[k - 1]
    IN  /\ cast.op = "bitcast" /\ cast.ops = <<old.callee>>
        /\ IsCall(resolve) /\ resolve.direct /\ resolve.callee = Local("_drti_call_from")
        /\ Len(resolve.ops) = 3
        /\ IsCallSiteOf(resolve.ops[1], fn.name)
        /\ resolve.ops[2] = ContinueValue(fn)
        /\ resolve.ops[3] = cast.res
        /\ Cardinality({j \in 1..Len(InstsOf(fn)) : InstsOf(fn)[j].res = resolve.res}) = 1
        /\ Cardinality({j \in 1..Len(InstsOf(fn)) :
                           /\ IsCall(InstsOf(fn)[j])
                           /\ InstsOf(fn)[j].callee = Local("_drti_call_from")
                           /\ InstsOf(fn)[j].ops[1] = resolve.ops[1]}) = 1
        /\ member.op = "structgep"
        /\ member.ops = <<resolve.res, Val("field", "", ResolvedTargetField)>>
        /\ load.op = "load" /\ load.ops = <<member.res>>
        /\ recast.op = "bitcast" /\ recast.ops = <<load.res>>
        /\ IsCall(marker) /\ marker.direct /\ marker.callee = Local("_drti_set_caller")
        /\ marker.ops = <<resolve.res>>
        /\ call = [old EXCEPT !.callee = recast.res, !.direct = FALSE, !.tail = "notail"]

\* The decorated call executed as the n-th event of the invocation comes
\* after the resolver, the load of the resolved target and the marker, with
\* the values the sequence prescribes.
ExecutedAt(n) ==
    n > 3 /\
    LET call    == frame.events[n]
        old     == OriginalInst(frame.fn, call.num)
        marker  == frame.events[n - 1]
        load    == frame.events[n - 2]
        resolve == frame.events[n - 3]
        site    == resolve.args[1]
    IN  /\ resolve.kind = "call" /\ resolve.callee = Local("_drti_call_from")
        /\ IsCallSiteOf(site, frame.fn)
        /\ GlobalAt(module, site).ordinal
              = CallsBefore(GetFunction(linked, frame.fn), call.num, NotAsmCall)
        /\ resolve.args[2] = Operand(frame, GetFunction(module, frame.fn),
                                     ContinueValue(GetFunction(module, frame.fn)))
        /\ resolve.args[3] = old.callee
        /\ load.kind = "load"
        /\ load.args = <<[base |-> resolve.result, field |-> ResolvedTargetField]>>
        /\ marker.kind = "call" /\ marker.callee = Local("_drti_set_caller")
        /\ marker.args = <<resolve.result>>
        /\ call.callee = load.result
        /\ call.args = old.ops
        /\ call.tail = "notail"

TheGlobal(kind) == GlobalsOfKind(module, kind)[1]

\* C16: after a completed run the module holds exactly one SelfDescriptor,
\* one snapshot and one address table; the SelfDescriptor points to the two,
\* its length member is the number of bytes of the snapshot and its count
\* member the number of entries of the table; every LandingSite record
\* points to that SelfDescriptor, every CallSite record is the record of
\* exactly one decorated call and points to the LandingSite record of the
\* function that holds the call, and the counter of every LandingSite and
\* CallSite record is zero.
C16_SelfDescriptorAndRecords ==
    Completed =>
        /\ Len(GlobalsOfKind(module, "reflect")) = 1
        /\ Len(GlobalsOfKind(module, "bitcode")) = 1
        /\ Len(GlobalsOfKind(module, "table")) = 1
        /\ TheGlobal("reflect").refs = <<RefTo(TheGlobal("bitcode")), RefTo(TheGlobal("table"))>>
        /\ TheGlobal("reflect").size = Len(TheGlobal("bitcode").data)
        /\ TheGlobal("reflect").count = Len(TheGlobal("table").data)
        /\ TheGlobal("reflect").constant
        /\ m_reflect_global = RefTo(TheGlobal("reflect"))
        /\ \A k \in 1..Len(GlobalsOfKind(module, "landing")) :
              LET l == GlobalsOfKind(module, "landing")[k]
              IN  /\ l.refs[3] = RefTo(TheGlobal("reflect"))
                  /\ l.counter = 0
        /\ \A k \in 1..Len(GlobalsOfKind(module, "callsite")) :
              LET c    == GlobalsOfKind(module, "callsite")[k]
                  uses == {d \in DecoratedCalls(module) : RefTo(d.site) = RefTo(c)}
              IN  /\ c.counter = 0
                  /\ Cardinality(uses) = 1
                  /\ \A d \in uses :
                        /\ Cardinality(RecordsFor("landing", d.function)) = 1
                        /\ \A l \in RecordsFor("landing", d.function) : c.refs = <<RefTo(l)>>

\* A run has completed with LandingSite records for f and g, CallSite
\* records in both, one of them with an ordinal above zero, and a table
\* that is not empty.
C16_Witness ==
    /\ Completed
    /\ Len(GlobalsOfKind(module, "landing")) = 2
    /\ RecordsFor("callsite", "f") # {} /\ RecordsFor("callsite", "g") # {}
    /\ \E c \in RecordsFor("callsite", "f") : c.ordinal > 0
    /\ TheGlobal("reflect").count > 0 /\ TheGlobal("reflect").size > TheGlobal("reflect").count

\* ----------------------------------------------------------------- C17

\* C17: a run of the pass over the module a completed run returned goes
\* from the test of the triple straight to its return: it never changes the
\* module, it returns false, and the module keeps its one snapshot and its
\* decorated calls as they were, none of them decorated again.
C17_RunOnOutputChangesNothing ==
    run = 3 =>
        /\ input.triple = DrtiTriple
        /\ module = input
        /\ pc \in {"entry", "returned"}
        /\ pc = "returned" => returned = "false"
        /\ Len(GlobalsOfKind(module, "bitcode")) = 1
        /\ Len(GlobalsOfKind(module, "reflect")) = 1
        /\ \A f \in 1..Len(module.functions) :
              \A i \in Range(InstsOf(module.functions[f])) :
                  (i.op = "bitcast" /\ i.res.sym = "castOldTarget")
                      => i.ops[1].sym # "castResolvedTarget"

\* The pass has returned from a run over a module it had decorated two
\* calls of.
C17_Witness ==
    /\ run = 3 /\ pc = "returned" /\ returned = "false"
    /\ module = input
    /\ Cardinality(DecoratedCalls(module)) >= 2
    /\ GlobalsOfKind(module, "landing") # <<>>

====
